---- MODULE Spec2Model ----
(***************************************************************************)
(* A model of swiftspec (src/swiftspec/core.py): the SWIFTRef reference    *)
(* parser, the auth header resolver, the lazily created shared session and *)
(* the SWIFTFileSystem operations against an object-storage server.        *)
(*                                                                         *)
(* Python strings and bytes are sequences of one-character strings.        *)
(* Python's None is the value None below, which is no character sequence.  *)
(***************************************************************************)
EXTENDS Integers, Sequences, FiniteSets, TLC

VARIABLES
    \* reference parsing (SWIFTRef)
    url,        \* the string handed to SWIFTRef(...)
    ref,        \* the SWIFTRef built from url, or Unparsed
    again,      \* SWIFTRef(ref.swift_url), or Unparsed
    target,     \* the (host, account, container, object) a URL pair encodes
    native,     \* SWIFTRef of the swift:// form of target, or Unparsed
    https,      \* SWIFTRef of the https:// form of target, or Unparsed
    \* auth header resolution
    authArg,    \* the auth argument of SWIFTFileSystem(...): NoAuth (None) or a list
    env,        \* os.environ: OS_AUTH_TOKEN and OS_STORAGE_URL, None when unset
    auth,       \* self.auth
    asked,      \* the url of the last headers_for_url(url) call, or None
    headers,    \* what that call returned
    \* the filesystem instance and the server
    transport,      \* the get_client factory: "aiohttp" (the default, against
                    \* a SWIFT server) or "mock" (MockClient of the tests)
    asynchronous,   \* self.asynchronous
    verify_uploads, \* self.verify_uploads
    loop,           \* self.loop: "none", "running" or "stopped"
    session,        \* self._session: NoSession (None) or the session
    created,        \* how often self.get_client was called
    finalizer,      \* whether weakref.finalize(self, close_session, ...) is set
    connector,      \* session._connector: "none", "open" or "closed"
    closeResult,    \* close_session: "notcalled", "returned" or "raised"
    store,          \* the server's objects of container c of account a
    last            \* the last operation: its call, request, response, outcome

refVars == <<url, ref, again, target, native, https>>
authVars == <<authArg, env, auth, asked, headers>>
configVars == <<transport, asynchronous, verify_uploads>>
sessionVars == <<session, created, finalizer, connector>>
fsVars == <<configVars, loop, sessionVars, closeResult, store, last>>

vars == <<refVars, authVars, fsVars>>

----------------------------------------------------------------------------
(* Bounds *)

\* the most path segments after the host in a URL handed to SWIFTRef
MaxSegs == 4

\* the most entries of the auth argument
MaxAuth == 2

\* the most sessions the factory is let to make
MaxSessions == 2

----------------------------------------------------------------------------
(* Strings *)

None == <<"None">>

Str_swift == <<"s", "w", "i", "f", "t">>
Str_https == <<"h", "t", "t", "p", "s">>
Str_http == <<"h", "t", "t", "p">>
Str_v1 == <<"v", "1">>
Str_None == <<"N", "o", "n", "e">>

Min(a, b) == IF a <= b THEN a ELSE b
Max(a, b) == IF a >= b THEN a ELSE b

\* s.find(ch) + 1: the 1-based index of the first ch in s, 0 when there is none
Find(s, ch) ==
    IF \E i \in 1..Len(s) : s[i] = ch
    THEN CHOOSE i \in 1..Len(s) : s[i] = ch /\ \A j \in 1..(i - 1) : s[j] # ch
    ELSE 0

\* s.rfind(ch) + 1
RFind(s, ch) ==
    IF \E i \in 1..Len(s) : s[i] = ch
    THEN CHOOSE i \in 1..Len(s) : s[i] = ch /\ \A j \in (i + 1)..Len(s) : s[j] # ch
    ELSE 0

\* s[n:]
From(s, n) == SubSeq(s, n + 1, Len(s))

\* s.startswith(p)
StartsWith(s, p) == Len(p) <= Len(s) /\ SubSeq(s, 1, Len(p)) = p

\* s.split("/", maxsplit)
RECURSIVE Split(_, _)
Split(s, maxsplit) ==
    LET i == Find(s, "/") IN
    IF maxsplit = 0 \/ i = 0 THEN <<s>>
    ELSE <<SubSeq(s, 1, i - 1)>> \o Split(From(s, i), maxsplit - 1)

\* the characters urlsplit accepts in a scheme
SchemeChars ==
    {"a", "b", "c", "d", "e", "f", "g", "h", "i", "j", "k", "l", "m", "n", "o",
     "p", "q", "r", "s", "t", "u", "v", "w", "x", "y", "z", "0", "1", "2", "3",
     "4", "5", "6", "7", "8", "9", "+", "-", "."}

\* urllib.parse.uses_params, as far as the schemes of this model go
UsesParams == {<<>>, Str_https, Str_http}

\* the first of "/", "?", "#" in s at or after position 3, or Len(s) + 1
NetlocEnd(s) ==
    LET hits == {i \in 3..Len(s) : s[i] \in {"/", "?", "#"}} IN
    IF hits = {} THEN Len(s) + 1
    ELSE CHOOSE i \in hits : \A j \in hits : i <= j

\* s up to (not including) the first ch, all of s when there is none
Before(s, ch) == IF Find(s, ch) = 0 THEN s ELSE SubSeq(s, 1, Find(s, ch) - 1)

\* urllib.parse._splitparams(path)[0]: the path without the ";params" of its
\* last segment
SplitParams(path) ==
    LET slash == RFind(path, "/")
        tail == From(path, Max(slash - 1, 0))
        semi == Find(tail, ";")
    IN  IF semi = 0 THEN path
        ELSE SubSeq(path, 1, Max(slash - 1, 0) + semi - 1)

\* urllib.parse.urlparse(u): the scheme, netloc and path of u
urlparse(u) ==
    LET colon == Find(u, ":")
        hasScheme == /\ colon > 1
                     /\ \A i \in 1..(colon - 1) : u[i] \in SchemeChars
                     /\ u[1] \notin {"0", "1", "2", "3", "4", "5", "6", "7", "8",
                                     "9", "+", "-", "."}
        scheme == IF hasScheme THEN SubSeq(u, 1, colon - 1) ELSE <<>>
        rest == IF hasScheme THEN From(u, colon) ELSE u
        hasNetloc == StartsWith(rest, <<"/", "/">>)
        netloc == IF hasNetloc THEN SubSeq(rest, 3, NetlocEnd(rest) - 1) ELSE <<>>
        rest2 == IF hasNetloc THEN From(rest, NetlocEnd(rest) - 1) ELSE rest
        noquery == Before(Before(rest2, "#"), "?")
        path == IF scheme \in UsesParams /\ Find(noquery, ";") # 0
                THEN SplitParams(noquery) ELSE noquery
    IN  [scheme |-> scheme, netloc |-> netloc, path |-> path]

----------------------------------------------------------------------------
(* SWIFTRef *)

Unparsed == [err |-> "unparsed"]

Raised(e) == [err |-> e]

\* x or None
OrNone(x) == IF x = <<>> \/ x = None THEN None ELSE x

\* bool(x) of a string or None
Truthy(x) == x # None /\ x # <<>>

\* how an f-string renders a field
Fmt(x) == IF x = None THEN Str_None ELSE x

\* the rest of SWIFTRef.__init__, from the parsed URL on
FromParts(parts) ==
    LET split_parts ==
            (IF parts.scheme = Str_swift THEN From(Split(parts.path, 3), 1)
             ELSE From(Split(parts.path, 4), 2)) \o <<None, None>>
    IN  IF parts.scheme \notin {Str_swift, Str_https} THEN Raised("ValueError")
        ELSE IF Len(split_parts) < 3 THEN Raised("IndexError")
        ELSE [err |-> "none", host |-> parts.netloc, account |-> split_parts[1],
              container |-> OrNone(split_parts[2]),
              object |-> OrNone(split_parts[3])]

\* SWIFTRef.__init__(ref): the reference, or the exception it raises
SWIFTRef(u) == FromParts(urlparse(u))

Str_httpsBase(r) == Str_https \o <<":", "/", "/">> \o Fmt(r.host) \o <<"/">> \o Str_v1
Str_swiftBase(r) == Str_swift \o <<":", "/", "/">> \o Fmt(r.host)

\* SWIFTRef.http_url
http_url(r) ==
    IF Truthy(r.object)
    THEN Str_httpsBase(r) \o <<"/">> \o Fmt(r.account) \o <<"/">> \o Fmt(r.container)
            \o <<"/">> \o Fmt(r.object)
    ELSE IF Truthy(r.container)
    THEN Str_httpsBase(r) \o <<"/">> \o Fmt(r.account) \o <<"/">> \o Fmt(r.container)
    ELSE Str_httpsBase(r) \o <<"/">> \o Fmt(r.account)

\* SWIFTRef.swift_url
swift_url(r) ==
    IF Truthy(r.object)
    THEN Str_swiftBase(r) \o <<"/">> \o Fmt(r.account) \o <<"/">> \o Fmt(r.container)
            \o <<"/">> \o Fmt(r.object)
    ELSE IF Truthy(r.container)
    THEN Str_swiftBase(r) \o <<"/">> \o Fmt(r.account) \o <<"/">> \o Fmt(r.container)
    ELSE Str_swiftBase(r) \o <<"/">> \o Fmt(r.account)

----------------------------------------------------------------------------
(* The inputs of the reference specifications *)

\* host strings
Hosts == {<<"s">>, <<>>}

\* path segments: plain names, the version marker, the empty segment, and
\* names holding the characters urlparse treats specially
Segs == {<<>>, <<"a">>, <<"c">>, Str_v1, <<"f", ";", "t">>, <<"f", "?", "t">>}

\* every sequence of at most n path segments
RECURSIVE SegLists(_)
SegLists(n) ==
    IF n = 0 THEN {<<>>}
    ELSE SegLists(n - 1) \cup
         {Append(l, s) : l \in {x \in SegLists(n - 1) : Len(x) = n - 1}, s \in Segs}

\* "/".join of the segments, each preceded by "/"
RECURSIVE PathOf(_)
PathOf(segs) ==
    IF segs = <<>> THEN <<>> ELSE <<"/">> \o Head(segs) \o PathOf(Tail(segs))

Schemes == {Str_swift, Str_https, Str_http}

URLs ==
    {sch \o <<":", "/", "/">> \o h \o PathOf(l) :
        sch \in Schemes, h \in Hosts, l \in SegLists(MaxSegs)}

NoTarget == [host |-> None]

\* auth=None, the default of SWIFTFileSystem(...)
NoAuth == [given |-> FALSE]

\* auth=entries
AuthGiven(entries) == [given |-> TRUE, entries |-> entries]

\* auth or []
OrEmptyList(arg) == IF arg.given THEN arg.entries ELSE <<>>

----------------------------------------------------------------------------
(* SpecRef: one URL is parsed, rendered in the native scheme and parsed again *)

\* the reference variables of a specification that parses no reference
RefIdle ==
    /\ url = <<>>
    /\ ref = Unparsed
    /\ again = Unparsed
    /\ target = NoTarget
    /\ native = Unparsed
    /\ https = Unparsed

\* the auth variables of a specification that resolves no auth header
AuthIdle ==
    /\ authArg = NoAuth
    /\ env = [OS_AUTH_TOKEN |-> None, OS_STORAGE_URL |-> None]
    /\ auth = <<>>
    /\ asked = None
    /\ headers = <<>>

\* the filesystem variables of a specification without a filesystem
FsIdle ==
    /\ transport = "mock"
    /\ asynchronous = FALSE
    /\ verify_uploads = TRUE
    /\ loop = "running"
    /\ session = [none |-> TRUE]
    /\ created = 0
    /\ finalizer = FALSE
    /\ connector = "none"
    /\ closeResult = "notcalled"
    /\ store = <<>>
    /\ last = <<>>

InitRef ==
    /\ AuthIdle
    /\ FsIdle
    /\ url \in URLs
    /\ ref = Unparsed
    /\ again = Unparsed
    /\ target = NoTarget
    /\ native = Unparsed
    /\ https = Unparsed

\* ref = SWIFTRef(url)
Construct ==
    /\ ref = Unparsed
    /\ ref' = SWIFTRef(url)
    /\ UNCHANGED <<url, again, target, native, https, authVars, fsVars>>

\* SWIFTRef(ref.swift_url)
Reparse ==
    /\ ref.err = "none"
    /\ again = Unparsed
    /\ again' = SWIFTRef(swift_url(ref))
    /\ UNCHANGED <<url, ref, target, native, https, authVars, fsVars>>

NextRef == Construct \/ Reparse

SpecRef == InitRef /\ [][NextRef]_vars

\* C2: every reference SWIFTRef constructs without raising has host and
\* account present (neither absent nor empty), and has a container whenever it
\* has an object.
C2_ReferenceInvariant ==
    ref.err = "none" =>
        /\ Truthy(ref.host)
        /\ Truthy(ref.account)
        /\ (ref.object # None => ref.container # None)

\* C3: parsing the native rendering of a parsed reference gives the same host,
\* account, container and object again.
C3_RoundTrip ==
    again # Unparsed =>
        /\ again.err = "none"
        /\ again.host = ref.host
        /\ again.account = ref.account
        /\ again.container = ref.container
        /\ again.object = ref.object

----------------------------------------------------------------------------
(* SpecPair: the two URL forms of one (host, account, container, object) *)

\* names of accounts and containers
Names == {<<"a">>, <<"c">>, <<"f", ";", "t">>}

\* object keys: plain, with a path separator, with a ";"
Objects == {<<"a">>, <<"f", "/", "t">>, <<"f", ";", "t">>}

\* host, account, optional container, optional object (only under a
\* container), and whether a "/" follows the container
Targets ==
    {t \in [host : {<<"s">>}, account : Names, container : Names \cup {None},
            object : Objects \cup {None}, slash : BOOLEAN] :
        /\ (t.object # None => t.container # None)
        /\ (t.slash => t.container # None /\ t.object = None)}

\* account[/container[/object]], with the "/" after the container if asked
TargetPath(t) ==
    t.account
        \o (IF t.container = None THEN <<>> ELSE <<"/">> \o t.container)
        \o (IF t.object = None THEN <<>> ELSE <<"/">> \o t.object)
        \o (IF t.slash THEN <<"/">> ELSE <<>>)

\* swift://host/account[/container[/object]]
NativeURL(t) == Str_swift \o <<":", "/", "/">> \o t.host \o <<"/">> \o TargetPath(t)

\* https://host/v1/account[/container[/object]]
HttpsURL(t) ==
    Str_https \o <<":", "/", "/">> \o t.host \o <<"/">> \o Str_v1 \o <<"/">>
        \o TargetPath(t)

InitPair ==
    /\ AuthIdle
    /\ FsIdle
    /\ target \in Targets
    /\ native = Unparsed
    /\ https = Unparsed
    /\ url = <<>>
    /\ ref = Unparsed
    /\ again = Unparsed

\* SWIFTRef(<the swift:// form>)
ParseNative ==
    /\ native = Unparsed
    /\ native' = SWIFTRef(NativeURL(target))
    /\ UNCHANGED <<url, ref, again, target, https, authVars, fsVars>>

\* SWIFTRef(<the https:// form>)
ParseHttps ==
    /\ https = Unparsed
    /\ https' = SWIFTRef(HttpsURL(target))
    /\ UNCHANGED <<url, ref, again, target, native, authVars, fsVars>>

NextPair == ParseNative \/ ParseHttps

SpecPair == InitPair /\ [][NextPair]_vars

\* r holds exactly the fields of t
HasFields(r, t) ==
    /\ r.err = "none"
    /\ r.host = t.host
    /\ r.account = t.account
    /\ r.container = t.container
    /\ r.object = t.object

\* C1: the swift:// and the https:// form of the same (host, account,
\* container, object) parse to those same fields, and http_url of both
\* references is https://host/v1/account[/container[/object]].
C1_SchemeIndependentParse ==
    (native # Unparsed /\ https # Unparsed) =>
        /\ HasFields(native, target)
        /\ HasFields(https, target)
        /\ http_url(native) = HttpsURL([target EXCEPT !.slash = FALSE])
        /\ http_url(https) = HttpsURL([target EXCEPT !.slash = FALSE])

----------------------------------------------------------------------------
(* Auth header resolution *)

\* dict literals
EmptyDict == <<>>

Str_XAuthToken == "X-Auth-Token"

\* prefixes of storage URLs, as auth entries name them
Url_a == Str_https \o <<":", "/", "/", "s", "/">> \o Str_v1 \o <<"/", "a">>
Url_ac == Url_a \o <<"/", "c">>
Url_b == Str_https \o <<":", "/", "/", "s", "/">> \o Str_v1 \o <<"/", "b">>

Tokens == {<<"k", "1">>, <<"k", "2">>}
EnvToken == <<"k", "e">>

AuthEntries == [token : Tokens, url : {Url_a, Url_ac, Url_b}]

\* every list of at most n auth entries
RECURSIVE AuthLists(_)
AuthLists(n) ==
    IF n = 0 THEN {<<>>}
    ELSE AuthLists(n - 1) \cup
         {Append(l, e) : l \in {x \in AuthLists(n - 1) : Len(x) = n - 1},
                         e \in AuthEntries}

\* SWIFTFileSystem.get_tokens_from_env
get_tokens_from_env(environ) ==
    LET token == environ.OS_AUTH_TOKEN
        u == environ.OS_STORAGE_URL
    IN  IF Truthy(token) /\ Truthy(u) THEN <<[token |-> token, url |-> u]>>
        ELSE <<>>

\* self.auth as SWIFTFileSystem.__init__ sets it: (auth or []) + env entries
init_auth(arg, environ) ==
    OrEmptyList(arg) \o get_tokens_from_env(environ)

\* headers_for_url without the break: the last matching entry wins
RECURSIVE headers_for_url_NoBreak(_, _)
headers_for_url_NoBreak(entries, u) ==
    IF entries = <<>> THEN EmptyDict
    ELSE LET rest == headers_for_url_NoBreak(Tail(entries), u) IN
         IF StartsWith(u, Head(entries).url) /\ Str_XAuthToken \notin DOMAIN rest
         THEN (Str_XAuthToken :> Head(entries).token)
         ELSE rest

\* SWIFTFileSystem.headers_for_url, over self.auth = entries
RECURSIVE headers_for_url(_, _)
headers_for_url(entries, u) ==
    IF entries = <<>> THEN EmptyDict
    ELSE IF StartsWith(u, Head(entries).url)
         THEN (Str_XAuthToken :> Head(entries).token)
         ELSE headers_for_url(Tail(entries), u)

----------------------------------------------------------------------------
(* SpecAuth: a filesystem is constructed and asked for the headers of URLs *)

\* the URLs headers are asked for
AskedUrls ==
    {Url_a, Url_ac, Url_ac \o <<"/", "x">>, Url_b \o <<"/", "c">>,
     Str_https \o <<":", "/", "/", "t", "/">> \o Str_v1 \o <<"/", "a">>}

InitAuth ==
    /\ RefIdle
    /\ FsIdle
    /\ authArg \in {NoAuth} \cup {AuthGiven(l) : l \in AuthLists(MaxAuth)}
    /\ env \in [OS_AUTH_TOKEN : {None, <<>>, EnvToken},
                OS_STORAGE_URL : {None, <<>>, Url_a}]
    /\ auth = init_auth(authArg, env)
    /\ asked = None
    /\ headers = EmptyDict

\* self.headers_for_url(u)
HeadersForUrl(u) ==
    /\ asked' = u
    /\ headers' = headers_for_url(auth, u)
    /\ UNCHANGED <<refVars, authArg, env, auth, fsVars>>

NextAuth == \E u \in AskedUrls : HeadersForUrl(u)

SpecAuth == InitAuth /\ [][NextAuth]_vars

\* the entries in the order the claim gives: the caller's, then the one of
\* the environment when both variables are set (to something)
ExpectedEntries ==
    (IF authArg.given THEN authArg.entries ELSE <<>>)
        \o (IF env.OS_AUTH_TOKEN \notin {None, <<>>}
               /\ env.OS_STORAGE_URL \notin {None, <<>>}
            THEN <<[token |-> env.OS_AUTH_TOKEN, url |-> env.OS_STORAGE_URL]>>
            ELSE <<>>)

\* the indices of the expected entries whose url is a prefix of u
Matching(u) ==
    {i \in 1..Len(ExpectedEntries) : StartsWith(u, ExpectedEntries[i].url)}

\* C4: headers_for_url(url) carries the token of the first entry, caller's
\* entries before the environment's, whose url is a literal prefix of url, and
\* no X-Auth-Token (and nothing else) when no entry matches.
C4_FirstMatchWins ==
    asked # None =>
        IF Matching(asked) = {}
        THEN headers = EmptyDict
        ELSE /\ DOMAIN headers = {Str_XAuthToken}
             /\ \E i \in Matching(asked) :
                    /\ \A j \in Matching(asked) : i <= j
                    /\ headers[Str_XAuthToken] = ExpectedEntries[i].token

\* C4's case: a caller's entry and the environment's entry both match, with
\* different tokens, and a second caller's entry matches too
C4_Witness ==
    /\ asked # None
    /\ Cardinality(Matching(asked)) >= 3
    /\ authArg.given
    /\ Len(authArg.entries) = 2
    /\ authArg.entries[1].token # authArg.entries[2].token
    /\ Len(auth) = 3
    /\ headers = (Str_XAuthToken :> authArg.entries[1].token)

----------------------------------------------------------------------------
(* Numbers and bytes *)

\* Python integers are unbounded. A byte count is hi * 10^9 + lo, lo < 10^9.
Big(n) == [hi |-> 0, lo |-> n]

\* a + n, for 0 <= n < 10^9
BigAddSmall(a, n) ==
    [hi |-> a.hi + ((a.lo + n) \div 1000000000), lo |-> (a.lo + n) % 1000000000]

\* a + b
BigAdd(a, b) ==
    [hi |-> a.hi + b.hi + ((a.lo + b.lo) \div 1000000000),
     lo |-> (a.lo + b.lo) % 1000000000]

\* max(a - n, 0), for 0 <= n < 10^9
BigSubSmall(a, n) ==
    IF a.lo >= n THEN [hi |-> a.hi, lo |-> a.lo - n]
    ELSE IF a.hi = 0 THEN Big(0)
    ELSE [hi |-> a.hi - 1, lo |-> a.lo + 1000000000 - n]

\* a > b
BigGt(a, b) == a.hi > b.hi \/ (a.hi = b.hi /\ a.lo > b.lo)

Digits == <<"0", "1", "2", "3", "4", "5", "6", "7", "8", "9">>

\* str(n)
RECURSIVE IntToStr(_)
IntToStr(n) ==
    IF n < 10 THEN <<Digits[n + 1]>>
    ELSE IntToStr(n \div 10) \o <<Digits[(n % 10) + 1]>>

\* int(s), s a non-empty string of digits
RECURSIVE StrToInt(_)
StrToInt(s) ==
    LET d == CHOOSE k \in 0..9 : Digits[k + 1] = s[Len(s)] IN
    IF Len(s) = 1 THEN d ELSE 10 * StrToInt(SubSeq(s, 1, Len(s) - 1)) + d

\* s.zfill(9)
RECURSIVE ZFill9(_)
ZFill9(s) == IF Len(s) >= 9 THEN s ELSE ZFill9(<<"0">> \o s)

\* str(a) of a byte count
BigStr(a) ==
    IF a.hi = 0 THEN IntToStr(a.lo) ELSE IntToStr(a.hi) \o ZFill9(IntToStr(a.lo))

\* int(s) of a byte count
BigParse(s) ==
    IF Len(s) <= 9 THEN Big(StrToInt(s))
    ELSE [hi |-> StrToInt(SubSeq(s, 1, Len(s) - 9)),
          lo |-> StrToInt(SubSeq(s, Len(s) - 8, Len(s)))]

\* A bytes value: the characters of head followed by `zeros` zero bytes (head
\* holds no zero byte).
Bytes(head) == [head |-> head, zeros |-> Big(0)]
Zeros(count) == [head |-> <<>>, zeros |-> count]

\* len(data)
BLen(d) == BigAddSmall(d.zeros, Len(d.head))

\* data[lo:hi], for 0 <= lo and 0 <= hi
Slice(d, lo, hi) ==
    LET n == Len(d.head)
        top == IF d.zeros.hi > 0 THEN hi ELSE Min(hi, n + d.zeros.lo)
    IN  [head |-> SubSeq(d.head, lo + 1, Min(hi, n)),
         zeros |-> Big(Max(0, top - Max(lo, n)))]

\* data[lo:], for 0 <= lo
SliceFrom(d, lo) ==
    [head |-> From(d.head, lo),
     zeros |-> BigSubSmall(d.zeros, Max(0, lo - Len(d.head)))]

\* hashlib.md5(data).hexdigest(): the digest is a function of the bytes alone,
\* and different bytes of the model have different digests
md5_hexdigest(d) == [md5 |-> d]

\* 5 * 2 ** 30, the largest PUT of the protocol
MaxPutSize == [hi |-> 5, lo |-> 368709120]

----------------------------------------------------------------------------
(* The server of the tests: container c of account a on host s *)

Nothing == [some |-> FALSE]
Some(v) == [some |-> TRUE, v |-> v]

Absent == [absent |-> TRUE]

Str_Hello == <<"H", "e", "l", "l", "o", " ", "W", "o", "r", "l", "d">>
Str_bar == <<"b", "a", "r">>

Account_a == <<"a">>
Container_c == <<"c">>
Object_x == <<"x">>
Object_ft == <<"f", "/", "t">>

\* the object names of the container, in the order of a listing
ObjectNames == <<Object_ft, Object_x>>

ObjectSet == {ObjectNames[i] : i \in 1..Len(ObjectNames)}

Str_ContentLength == "Content-Length"
Str_Range == "Range"

Str_bytes == <<"b", "y", "t", "e", "s", "=">>

\* a response: status, headers, body, the exception the handler raised instead
\* of answering ("none" if it answered), and the objects afterwards
Response(status, hdrs, body, objects) ==
    [status |-> status, headers |-> hdrs, body |-> body, raises |-> "none",
     store |-> objects]

HandlerRaises(e, objects) ==
    [status |-> 0, headers |-> EmptyDict, body |-> None, raises |-> e,
     store |-> objects]

\* Router.__call__ and the three routes of get_client: what the URL names
Route(u) ==
    LET rest == From(u, Len(Str_https) + 3)
        path == From(rest, Max(Find(rest, "/") - 1, 0))
        parts == Split(path, 4)
        known == /\ Len(parts) >= 3
                 /\ Find(rest, "/") # 0
                 /\ parts[2] = Str_v1
                 /\ parts[3] = Account_a
    IN  IF known /\ Len(parts) = 3 THEN [kind |-> "account"]
        ELSE IF known /\ Len(parts) = 4 /\ parts[4] = Container_c
             THEN [kind |-> "container"]
        ELSE IF known /\ Len(parts) = 5 /\ parts[4] = Container_c
                /\ parts[5] \in ObjectSet
             THEN [kind |-> "object", name |-> parts[5]]
        ELSE [kind |-> "none"]

\* RANGE_RE of the tests, the byte-range-spec of the wire protocol:
\* "bytes=<start>-[<end>]"
ParseRange(value) ==
    LET spec == From(value, Len(Str_bytes))
        dash == Find(spec, "-")
        first == SubSeq(spec, 1, dash - 1)
        second == From(spec, dash)
    IN  [start |-> StrToInt(first),
         end |-> IF second = <<>> THEN Nothing ELSE Some(StrToInt(second))]

\* data[range_to_slice(value)] of the tests: data[start:end], the end exclusive
range_to_slice(data, value) ==
    LET r == ParseRange(value) IN
    IF r.end.some THEN Slice(data, r.start, r.end.v) ELSE SliceFrom(data, r.start)

ObjectHeaders(data) ==
    (Str_ContentLength :> BigStr(BLen(data))) @@ ("Etag" :> md5_hexdigest(data))

\* ObjectHandler.get
ObjectGet(objects, name, hdrs) ==
    LET data == objects[name] IN
    IF data = Absent THEN Response(404, EmptyDict, Bytes(<<>>), objects)
    ELSE IF Str_Range \notin DOMAIN hdrs
    THEN Response(200, ObjectHeaders(data), data, objects)
    ELSE Response(200, ObjectHeaders(range_to_slice(data, hdrs[Str_Range])),
                  range_to_slice(data, hdrs[Str_Range]), objects)

\* ObjectHandler.head
ObjectHead(objects, name, hdrs) ==
    Response(ObjectGet(objects, name, hdrs).status,
             ObjectGet(objects, name, hdrs).headers, Bytes(<<>>), objects)

\* ObjectHandler.put: it looks the integrity tag up under "Etag"
ObjectPut(objects, name, hdrs, data) ==
    IF Str_ContentLength \notin DOMAIN hdrs
    THEN Response(411, EmptyDict, Bytes(<<>>), objects)
    ELSE IF BigParse(hdrs[Str_ContentLength]) # BLen(data)
    THEN HandlerRaises("AssertionError", objects)
    ELSE IF "Etag" \in DOMAIN hdrs /\ hdrs["Etag"] # md5_hexdigest(data)
    THEN HandlerRaises("AssertionError", objects)
    ELSE Response(201, EmptyDict, Bytes(<<>>), [objects EXCEPT ![name] = data])

\* ObjectHandler.delete
ObjectDelete(objects, name) ==
    Response(204, EmptyDict, Bytes(<<>>), [objects EXCEPT ![name] = Absent])

\* the entry of a stored object in a container listing
ObjectEntry(objects, name) ==
    [hash |-> md5_hexdigest(objects[name]), bytes |-> BLen(objects[name]),
     name |-> name]

\* the entries of the stored objects from index i on
RECURSIVE ListFrom(_, _)
ListFrom(objects, i) ==
    IF i > Len(ObjectNames) THEN <<>>
    ELSE IF objects[ObjectNames[i]] = Absent THEN ListFrom(objects, i + 1)
    ELSE <<ObjectEntry(objects, ObjectNames[i])>> \o ListFrom(objects, i + 1)

\* ContainerHandler.get: it lists every object, whatever the parameters
ContainerGet(objects) == Response(200, EmptyDict, ListFrom(objects, 1), objects)

\* AccountHandler.get: it reports no byte count
AccountGet(objects) ==
    Response(200, EmptyDict,
             <<[count |-> Cardinality({n \in ObjectSet : objects[n] # Absent}),
                bytes |-> None, name |-> Container_c]>>,
             objects)

\* MockClient._method and Router.__call__: what the tests' client answers
MockServe(objects, method, route, params, hdrs, data) ==
    IF route.kind = "object" /\ method = "GET"
    THEN ObjectGet(objects, route.name, hdrs)
    ELSE IF route.kind = "object" /\ method = "HEAD"
    THEN ObjectHead(objects, route.name, hdrs)
    ELSE IF route.kind = "object" /\ method = "PUT"
    THEN ObjectPut(objects, route.name, hdrs, data)
    ELSE IF route.kind = "object" /\ method = "DELETE"
    THEN ObjectDelete(objects, route.name)
    ELSE IF route.kind = "container" /\ method = "GET"
    THEN ContainerGet(objects)
    ELSE IF route.kind = "account" /\ method = "GET"
    THEN AccountGet(objects)
    ELSE IF route.kind = "none"
    THEN Response(404, EmptyDict, Bytes(<<>>), objects)
    ELSE HandlerRaises("AttributeError", objects)

----------------------------------------------------------------------------
(* The server behind the default client, as the wire protocol defines it *)

\* the bytes a byte range selects: first and last byte position, both
\* inclusive
WireRange(data, value) ==
    LET r == ParseRange(value) IN
    IF r.end.some THEN Slice(data, r.start, r.end.v + 1)
    ELSE SliceFrom(data, r.start)

\* whether the range can be satisfied: its first byte exists and its last
\* byte position is not before the first
WireSatisfiable(data, value) ==
    LET r == ParseRange(value) IN
    /\ BigGt(BLen(data), Big(r.start))
    /\ (r.end.some => r.end.v >= r.start)

\* GET of an object
WireObjectGet(objects, name, hdrs) ==
    LET data == objects[name] IN
    IF data = Absent THEN Response(404, EmptyDict, Bytes(<<>>), objects)
    ELSE IF Str_Range \notin DOMAIN hdrs
    THEN Response(200, ObjectHeaders(data), data, objects)
    ELSE IF ~WireSatisfiable(data, hdrs[Str_Range])
    THEN Response(416, EmptyDict, Bytes(<<>>), objects)
    ELSE Response(206, (Str_ContentLength
                            :> BigStr(BLen(WireRange(data, hdrs[Str_Range]))))
                           @@ ("Etag" :> md5_hexdigest(data)),
                  WireRange(data, hdrs[Str_Range]), objects)

\* HEAD of an object
WireObjectHead(objects, name, hdrs) ==
    Response(WireObjectGet(objects, name, hdrs).status,
             WireObjectGet(objects, name, hdrs).headers, Bytes(<<>>), objects)

\* PUT of an object: the server checks the length and the integrity tag
WireObjectPut(objects, name, hdrs, data) ==
    IF Str_ContentLength \notin DOMAIN hdrs
    THEN Response(411, EmptyDict, Bytes(<<>>), objects)
    ELSE IF BigParse(hdrs[Str_ContentLength]) # BLen(data)
    THEN Response(400, EmptyDict, Bytes(<<>>), objects)
    ELSE IF "ETag" \in DOMAIN hdrs /\ hdrs["ETag"] # md5_hexdigest(data)
    THEN Response(422, EmptyDict, Bytes(<<>>), objects)
    ELSE Response(201, EmptyDict, Bytes(<<>>), [objects EXCEPT ![name] = data])

\* DELETE of an object: 404 for an object the server does not hold
WireObjectDelete(objects, name) ==
    IF objects[name] = Absent THEN Response(404, EmptyDict, Bytes(<<>>), objects)
    ELSE Response(204, EmptyDict, Bytes(<<>>), [objects EXCEPT ![name] = Absent])

\* the entries a container listing with delimiter "/" holds for the names
\* from index i on: the names under the prefix, those with a further "/"
\* folded into their pseudo-directory
RECURSIVE WireListFrom(_, _, _, _)
WireListFrom(objects, i, prefix, seen) ==
    IF i > Len(ObjectNames) THEN <<>>
    ELSE LET name == ObjectNames[i]
             cut == Find(From(name, Len(prefix)), "/")
             dir == prefix \o SubSeq(From(name, Len(prefix)), 1, cut)
         IN  IF objects[name] = Absent \/ ~StartsWith(name, prefix)
             THEN WireListFrom(objects, i + 1, prefix, seen)
             ELSE IF cut = 0
             THEN <<ObjectEntry(objects, name)>>
                      \o WireListFrom(objects, i + 1, prefix, seen)
             ELSE IF dir \in seen THEN WireListFrom(objects, i + 1, prefix, seen)
             ELSE <<[subdir |-> dir]>>
                      \o WireListFrom(objects, i + 1, prefix, seen \cup {dir})

\* GET of a container
WireContainerGet(objects, params) ==
    Response(200, EmptyDict,
             WireListFrom(objects, 1,
                          IF "prefix" \in DOMAIN params THEN params["prefix"]
                          ELSE <<>>,
                          {}),
             objects)

\* the stored objects' sizes from index i on, added up
RECURSIVE BytesFrom(_, _)
BytesFrom(objects, i) ==
    IF i > Len(ObjectNames) THEN Big(0)
    ELSE IF objects[ObjectNames[i]] = Absent THEN BytesFrom(objects, i + 1)
    ELSE BigAdd(BLen(objects[ObjectNames[i]]), BytesFrom(objects, i + 1))

\* GET of an account
WireAccountGet(objects) ==
    Response(200, EmptyDict,
             <<[count |-> Cardinality({n \in ObjectSet : objects[n] # Absent}),
                bytes |-> BytesFrom(objects, 1), name |-> Container_c]>>,
             objects)

\* what the server answers
WireServe(objects, method, route, params, hdrs, data) ==
    IF route.kind = "object" /\ method = "GET"
    THEN WireObjectGet(objects, route.name, hdrs)
    ELSE IF route.kind = "object" /\ method = "HEAD"
    THEN WireObjectHead(objects, route.name, hdrs)
    ELSE IF route.kind = "object" /\ method = "PUT"
    THEN WireObjectPut(objects, route.name, hdrs, data)
    ELSE IF route.kind = "object" /\ method = "DELETE"
    THEN WireObjectDelete(objects, route.name)
    ELSE IF route.kind = "container" /\ method = "GET"
    THEN WireContainerGet(objects, params)
    ELSE IF route.kind = "account" /\ method = "GET"
    THEN WireAccountGet(objects)
    ELSE Response(404, EmptyDict, Bytes(<<>>), objects)

\* the answer of the client get_client made to a request
Serve(objects, method, u, params, hdrs, data) ==
    IF transport = "mock"
    THEN MockServe(objects, method, Route(u), params, hdrs, data)
    ELSE WireServe(objects, method, Route(u), params, hdrs, data)

----------------------------------------------------------------------------
(* SWIFTFileSystem *)

NoSession == [none |-> TRUE]
NewSession(n) == [none |-> FALSE, id |-> n]

NoRequest == [sent |-> FALSE]

\* one call of session.get / head / put / delete
Request(method, u, params, hdrs, data) ==
    [sent |-> TRUE, method |-> method, url |-> u, params |-> params,
     headers |-> hdrs, data |-> data, session |-> session']

NoResponse == [status |-> 0]

\* the exception res.raise_for_status() raises
StatusError == IF transport = "mock" THEN "RuntimeError" ELSE "ClientResponseError"

\* SWIFTFileSystem.set_session without the test for an existing session
set_session_Always ==
    /\ created < MaxSessions
    /\ session' = NewSession(created + 1)
    /\ created' = created + 1
    /\ finalizer' = (finalizer \/ ~asynchronous)
    /\ connector' = IF transport = "aiohttp" THEN "open" ELSE "none"

\* SWIFTFileSystem.set_session: session' is what it returns
set_session ==
    IF session = NoSession
    THEN /\ created < MaxSessions
         /\ session' = NewSession(created + 1)
         /\ created' = created + 1
         /\ finalizer' = (finalizer \/ ~asynchronous)
         /\ connector' = IF transport = "aiohttp" THEN "open" ELSE "none"
    ELSE UNCHANGED sessionVars

\* the operation raised before it asked for the session
Raise(call, e) ==
    /\ last' = [call |-> call, request |-> NoRequest, response |-> NoResponse,
                err |-> e, result |-> None]
    /\ UNCHANGED <<sessionVars, store>>

\* the operation returned without asking for the session
Return(call, result) ==
    /\ last' = [call |-> call, request |-> NoRequest, response |-> NoResponse,
                err |-> "none", result |-> result]
    /\ UNCHANGED <<sessionVars, store>>

\* the operation sent request req through the session and got res: it raised
\* e, or returned result
Exchange(call, req, res, e, result) ==
    /\ last' = [call |-> call, request |-> req,
                response |-> [status |-> res.status, headers |-> res.headers],
                err |-> e,
                result |-> IF e = "none" THEN result ELSE None]
    /\ store' = res.store

\* the exception of `async with session.<method>(...) as res:
\* res.raise_for_status()`, "none" if there is none
Failure(res) ==
    IF res.raises # "none" THEN res.raises
    ELSE IF res.status \div 100 # 2 THEN StatusError
    ELSE "none"

\* swift_res_to_info(prefix, res)
swift_res_to_info(prefix, res) ==
    IF "subdir" \in DOMAIN res
    THEN [name |-> prefix \o SubSeq(res.subdir, 1, Len(res.subdir) - 1),
          size |-> None, type |-> "directory"]
    ELSE [name |-> prefix \o res.name, size |-> res.bytes, type |-> "file"]
             @@ [k \in DOMAIN res \ {"bytes", "name", "size", "type"} |-> res[k]]

\* [f(e) for e in entries]
RECURSIVE MapInfo(_, _)
MapInfo(prefix, entries) ==
    IF entries = <<>> THEN <<>>
    ELSE <<swift_res_to_info(prefix, Head(entries))>>
             \o MapInfo(prefix, Tail(entries))

\* the directory records of the containers of an account listing
RECURSIVE MapContainers(_, _)
MapContainers(prefix, entries) ==
    IF entries = <<>> THEN <<>>
    ELSE <<[name |-> prefix \o Head(entries).name, size |-> Head(entries).bytes,
            type |-> "directory"]>>
             \o MapContainers(prefix, Tail(entries))

\* [e["name"] for e in info]
RECURSIVE NamesOf(_)
NamesOf(info) ==
    IF info = <<>> THEN <<>> ELSE <<Head(info).name>> \o NamesOf(Tail(info))

Str_json == <<"j", "s", "o", "n">>

\* SWIFTFileSystem._ls(path, detail)
_ls(path, detail) ==
    \E r \in {SWIFTRef(path)} :
    LET call == [op |-> "ls", path |-> path, detail |-> detail] IN
    IF r.err # "none" THEN Raise(call, r.err)
    ELSE IF ~Truthy(r.container)
    THEN \E u \in {Str_httpsBase(r) \o <<"/">> \o Fmt(r.account)} :
         \E hdrs \in {headers_for_url(auth, u)} :
         \E res \in {Serve(store, "GET", u, "format" :> Str_json, hdrs, None)} :
         LET info == MapContainers(Str_swiftBase(r) \o <<"/">> \o Fmt(r.account)
                                       \o <<"/">>, res.body)
         IN  /\ set_session
             /\ Exchange(call, Request("GET", u, "format" :> Str_json, hdrs, None),
                         res, Failure(res),
                         IF Failure(res) # "none" THEN None
                         ELSE IF detail THEN info ELSE NamesOf(info))
    ELSE \E u \in {Str_httpsBase(r) \o <<"/">> \o Fmt(r.account) \o <<"/">>
                       \o Fmt(r.container)} :
         \E hdrs \in {headers_for_url(auth, u)} :
         \E params \in {("format" :> Str_json) @@ ("delimiter" :> <<"/">>)
                            @@ ("prefix" :> IF ~Truthy(r.object) THEN <<>>
                                            ELSE IF r.object[Len(r.object)] = "/"
                                            THEN r.object
                                            ELSE r.object \o <<"/">>)} :
         \E res \in {Serve(store, "GET", u, params, hdrs, None)} :
         LET info == MapInfo(Str_swiftBase(r) \o <<"/">> \o Fmt(r.account)
                                 \o <<"/">> \o Fmt(r.container) \o <<"/">>,
                             res.body)
         IN  /\ set_session
             /\ Exchange(call, Request("GET", u, params, hdrs, None),
                         res, Failure(res),
                         IF Failure(res) # "none" THEN None
                         ELSE IF detail THEN info ELSE NamesOf(info))

\* the Range header _cat_file builds from start and end
RangeHeader(start, end) ==
    IF start.some
    THEN IF end.some
         THEN (Str_Range :> Str_bytes \o IntToStr(start.v) \o <<"-">>
                                \o IntToStr(end.v))
         ELSE (Str_Range :> Str_bytes \o IntToStr(start.v) \o <<"-">>)
    ELSE IF end.some
         THEN (Str_Range :> Str_bytes \o <<"0", "-">> \o IntToStr(end.v))
         ELSE EmptyDict

\* SWIFTFileSystem._cat_file(path, start, end)
_cat_file(path, start, end) ==
    \E r \in {SWIFTRef(path)} :
    LET call == [op |-> "cat_file", path |-> path, start |-> start, end |-> end] IN
    IF r.err # "none" THEN Raise(call, r.err)
    ELSE IF (start.some /\ start.v < 0) \/ (end.some /\ end.v < 0)
    THEN Raise(call, "AssertionError")
    ELSE \E u \in {http_url(r)} :
         \E hdrs \in {RangeHeader(start, end) @@ headers_for_url(auth, u)} :
         \E res \in {Serve(store, "GET", u, EmptyDict, hdrs, None)} :
             /\ set_session
             /\ Exchange(call, Request("GET", u, EmptyDict, hdrs, None),
                         res, Failure(res), res.body)

\* the headers of the PUT without the integrity tag
PutHeaders_NoTag(u, size, data) ==
    (Str_ContentLength :> BigStr(size)) @@ headers_for_url(auth, u)

\* the headers _pipe_file sends with its PUT
PutHeaders(u, size, data) ==
    (Str_ContentLength :> BigStr(size))
        @@ (IF verify_uploads THEN ("ETag" :> md5_hexdigest(data)) ELSE EmptyDict)
        @@ headers_for_url(auth, u)

\* SWIFTFileSystem._pipe_file with the session taken before the checks
_pipe_file_SessionFirst(path, data) ==
    \E r \in {SWIFTRef(path)} :
    LET call == [op |-> "pipe_file", path |-> path, data |-> data]
        size == BLen(data)
        e == IF ~Truthy(r.object) THEN "ValueError"
             ELSE IF BigGt(size, MaxPutSize) THEN "NotImplementedError"
             ELSE "none"
    IN  IF r.err # "none" THEN Raise(call, r.err)
        ELSE \E u \in {http_url(r)} :
             \E hdrs \in {PutHeaders(u, size, data)} :
             \E res \in {Serve(store, "PUT", u, EmptyDict, hdrs, data)} :
                 /\ set_session
                 /\ IF e # "none"
                    THEN /\ last' = [call |-> call, request |-> NoRequest,
                                     response |-> NoResponse, err |-> e,
                                     result |-> None]
                         /\ UNCHANGED store
                    ELSE Exchange(call, Request("PUT", u, EmptyDict, hdrs, data),
                                  res, Failure(res), None)

\* SWIFTFileSystem._pipe_file(path, data)
_pipe_file(path, data) ==
    \E r \in {SWIFTRef(path)} :
    LET call == [op |-> "pipe_file", path |-> path, data |-> data]
        size == BLen(data)
    IN  IF r.err # "none" THEN Raise(call, r.err)
        ELSE IF ~Truthy(r.object) THEN Raise(call, "ValueError")
        ELSE IF BigGt(size, MaxPutSize) THEN Raise(call, "NotImplementedError")
        ELSE \E u \in {http_url(r)} :
             \E hdrs \in {PutHeaders(u, size, data)} :
             \E res \in {Serve(store, "PUT", u, EmptyDict, hdrs, data)} :
                 /\ set_session
                 /\ Exchange(call, Request("PUT", u, EmptyDict, hdrs, data),
                             res, Failure(res), None)

\* SWIFTFileSystem._rm_file(path)
_rm_file(path) ==
    \E r \in {SWIFTRef(path)} :
    LET call == [op |-> "rm_file", path |-> path] IN
    IF r.err # "none" THEN Raise(call, r.err)
    ELSE IF ~Truthy(r.object) THEN Raise(call, "NotImplementedError")
    ELSE \E u \in {http_url(r)} :
         \E hdrs \in {headers_for_url(auth, u)} :
         \E res \in {Serve(store, "DELETE", u, EmptyDict, hdrs, None)} :
             /\ set_session
             /\ Exchange(call, Request("DELETE", u, EmptyDict, hdrs, None),
                         res, Failure(res), None)

\* what a call of _info comes to: it raised before the session, returned
\* without it, or sent a HEAD
InfoRaised(e) == [kind |-> "raise", err |-> e]
InfoReturned(result) == [kind |-> "return", err |-> "none", result |-> result]
InfoExchanged(u, hdrs, res, e, result) ==
    [kind |-> "exchange", url |-> u, headers |-> hdrs, res |-> res, err |-> e,
     result |-> result]

\* the end of _info without the test of the status
InfoOfHead_AnyStatus(r, u, hdrs, res) ==
    InfoExchanged(u, hdrs, res, res.raises, [name |-> swift_url(r), type |-> "file"])

\* the end of SWIFTFileSystem._info: what it makes of the answer to its HEAD
InfoOfHead(r, u, hdrs, res) ==
    IF res.raises # "none"
    THEN InfoExchanged(u, hdrs, res, res.raises, None)
    ELSE IF res.status # 200
    THEN InfoExchanged(u, hdrs, res, "FileNotFoundError", None)
    ELSE InfoExchanged(u, hdrs, res, "none",
                       [name |-> swift_url(r), type |-> "file",
                        size |-> BigParse(res.headers[Str_ContentLength]),
                        Etag |-> res.headers["Etag"]])

\* SWIFTFileSystem._info for the reference r of its path
InfoOfRef(r) ==
    IF r.err # "none" THEN InfoRaised(r.err)
    ELSE IF ~Truthy(r.object)
    THEN InfoReturned([name |-> swift_url(r), type |-> "directory", size |-> None])
    ELSE InfoOfHead(r, http_url(r), headers_for_url(auth, http_url(r)),
                    Serve(store, "HEAD", http_url(r), EmptyDict,
                          headers_for_url(auth, http_url(r)), None))

\* SWIFTFileSystem._info(path)
_info(path) == InfoOfRef(SWIFTRef(path))

\* a caller of _info that ends with exception e ("none": it returns result)
AfterInfo(call, out, e, result) ==
    IF out.kind = "exchange"
    THEN /\ set_session
         /\ Exchange(call, Request("HEAD", out.url, EmptyDict, out.headers, None),
                     out.res, e, result)
    ELSE IF e = "none" THEN Return(call, result)
    ELSE Raise(call, e)

\* AsyncFileSystem._exists(path): False on FileNotFoundError
_exists(path) ==
    \E out \in {_info(path)} :
    AfterInfo([op |-> "exists", path |-> path], out,
              IF out.err = "FileNotFoundError" THEN "none" ELSE out.err,
              out.err = "none")

\* AsyncFileSystem._isfile(path): False on any exception
_isfile(path) ==
    \E out \in {_info(path)} :
    AfterInfo([op |-> "isfile", path |-> path], out, "none",
              out.err = "none" /\ out.result.type = "file")

\* AsyncFileSystem._isdir(path): False on OSError
_isdir(path) ==
    \E out \in {_info(path)} :
    AfterInfo([op |-> "isdir", path |-> path], out,
              IF out.err = "FileNotFoundError" THEN "none" ELSE out.err,
              out.err = "none" /\ out.result.type = "directory")

\* SWIFTFileSystem.close_session(loop, session); `closing` is how
\* sync(loop, session.close, timeout=0.1) ends: "closed", "timeout" (it
\* raises FSTimeoutError) or "error" (it raises anything else)
close_session(closing) ==
    IF loop = "running" /\ closing = "closed"
    THEN /\ connector' = IF connector = "open" THEN "closed" ELSE connector
         /\ closeResult' = "returned"
    ELSE IF loop = "running" /\ closing = "error"
    THEN /\ closeResult' = "raised"
         /\ UNCHANGED connector
    ELSE /\ connector' = IF connector # "none" THEN "closed" ELSE connector
         /\ closeResult' = "returned"

----------------------------------------------------------------------------
(* The filesystem specifications: one instance, its operations one after   *)
(* the other                                                                *)

Str_swiftRoot == Str_swift \o <<":", "/", "/", "s", "/">> \o Account_a

Path_account == Str_swiftRoot
Path_container == Str_swiftRoot \o <<"/">> \o Container_c
Path_containerSlash == Path_container \o <<"/">>
Path_x == Path_container \o <<"/">> \o Object_x
Path_ft == Path_container \o <<"/">> \o Object_ft
Path_http == Str_http \o <<":", "/", "/", "s", "/">> \o Account_a

\* 5 GiB of data, and one byte more
Data_5GiB == Zeros(MaxPutSize)
Data_5GiB1 == Zeros(BigAddSmall(MaxPutSize, 1))

NoCall == [call |-> [op |-> "none"], request |-> NoRequest,
           response |-> NoResponse, err |-> "none", result |-> None]

\* SWIFTFileSystem(auth=[...], get_client=..., asynchronous=...,
\* verify_uploads=...) against a server holding the object of the tests
InitFs(transports, asynchronouses, verifies) ==
    /\ RefIdle
    /\ authArg = AuthGiven(<<[token |-> <<"k", "1">>, url |-> Url_ac]>>)
    /\ env = [OS_AUTH_TOKEN |-> EnvToken, OS_STORAGE_URL |-> Url_a]
    /\ auth = init_auth(authArg, env)
    /\ asked = None
    /\ headers = EmptyDict
    /\ transport \in transports
    /\ asynchronous \in asynchronouses
    /\ verify_uploads \in verifies
    /\ loop = IF asynchronous THEN "none" ELSE "running"
    /\ session = NoSession
    /\ created = 0
    /\ finalizer = FALSE
    /\ connector = "none"
    /\ closeResult = "notcalled"
    /\ store = (Object_x :> Bytes(Str_Hello)) @@ (Object_ft :> Absent)
    /\ last = NoCall

\* the instance is in use: not torn down, and its loop (if it has one) runs
Usable == closeResult = "notcalled" /\ loop # "stopped"

Frame == UNCHANGED <<refVars, authVars, configVars, loop, closeResult>>

Ls(paths) == \E path \in paths, detail \in BOOLEAN :
    Usable /\ _ls(path, detail) /\ Frame

CatFile(paths, bounds) == \E path \in paths, start \in bounds, end \in bounds :
    Usable /\ _cat_file(path, start, end) /\ Frame

PipeFile(paths, payloads) == \E path \in paths, data \in payloads :
    Usable /\ _pipe_file(path, data) /\ Frame

RmFile(paths) == \E path \in paths :
    Usable /\ _rm_file(path) /\ Frame

Info(paths) == \E path \in paths :
    /\ Usable
    /\ \E out \in {_info(path)} :
          AfterInfo([op |-> "info", path |-> path], out, out.err, out.result)
    /\ Frame

Exists(paths) == \E path \in paths :
    Usable /\ _exists(path) /\ Frame

IsFile(paths) == \E path \in paths :
    Usable /\ _isfile(path) /\ Frame

IsDir(paths) == \E path \in paths :
    Usable /\ _isdir(path) /\ Frame

\* the loop of the instance stops running
LoopStops ==
    /\ loop = "running"
    /\ loop' = "stopped"
    /\ UNCHANGED <<refVars, authVars, configVars, sessionVars, closeResult, store,
                   last>>

\* close_session(self.loop, self._session): the finalizer of the instance, or
\* a caller of the static method
CloseSession == \E closing \in {"closed", "timeout", "error"} :
    /\ session # NoSession
    /\ closeResult = "notcalled"
    /\ close_session(closing)
    /\ UNCHANGED <<refVars, authVars, configVars, loop, session, created,
                   finalizer, store, last>>

----------------------------------------------------------------------------
(* Spec: every operation, and the teardown of the session *)

Paths == {Path_account, Path_container, Path_containerSlash, Path_x, Path_ft,
          Path_http}

Payloads == {Bytes(Str_bar), Data_5GiB, Data_5GiB1}

Init == InitFs({"aiohttp", "mock"}, BOOLEAN, BOOLEAN)

Next ==
    \/ Ls(Paths)
    \/ CatFile(Paths, {Nothing})
    \/ PipeFile(Paths, Payloads)
    \/ RmFile(Paths)
    \/ Info(Paths)
    \/ Exists(Paths)
    \/ IsFile(Paths)
    \/ IsDir(Paths)
    \/ LoopStops
    \/ CloseSession

Spec == Init /\ [][Next]_vars

----------------------------------------------------------------------------
(* SpecRange: ranged reads of objects that are written and deleted *)

\* the values of start and end: absent, and byte offsets up to the size of the
\* object of the tests
Offsets == {Nothing, Some(0), Some(3), Some(5), Some(11)}

InitRange == InitFs({"aiohttp", "mock"}, {FALSE}, {TRUE})

NextRange ==
    \/ CatFile({Path_x, Path_ft}, Offsets)
    \/ PipeFile({Path_x, Path_ft}, {Bytes(Str_bar)})
    \/ RmFile({Path_x, Path_ft})

SpecRange == InitRange /\ [][NextRange]_vars

----------------------------------------------------------------------------
(* The session *)

\* C5: the session factory is invoked at most once per instance: no request
\* is sent before it ran, the one session it made stays the session of the
\* instance, and every request an operation sends goes through that session.
C5_SessionOnce ==
    /\ created <= 1
    /\ session = (IF created = 0 THEN NoSession ELSE NewSession(1))
    /\ last.request.sent => (created = 1 /\ last.request.session = session)

\* an object was written, and a later read sent its request through the one
\* session of the instance
C5_Witness ==
    /\ store[Object_ft] # Absent
    /\ last.call.op = "cat_file"
    /\ last.request.sent
    /\ last.request.session = NewSession(1)
    /\ created = 1

\* C10: close_session always returns to its caller, and it leaves no
\* connection of the session open.
C10_TeardownNeverRaises ==
    closeResult # "notcalled" => (closeResult = "returned" /\ connector # "open")

----------------------------------------------------------------------------
(* Uploads *)

\* the stored object a path names
ObjectAt(objects, path) == objects[SWIFTRef(path).object]

\* the path parses, and it names no object
NoObject(path) == SWIFTRef(path).err = "none" /\ ~Truthy(SWIFTRef(path).object)

\* the path parses, and it names an object
IsObjectPath(path) == SWIFTRef(path).err = "none" /\ Truthy(SWIFTRef(path).object)

\* C6: _pipe_file to a path without an object fails with ValueError, and to
\* an object path with more than 5 GiB of data with NotImplementedError; the
\* step sends no request, makes no session and leaves the stored objects as
\* they are. Exactly 5 GiB to an object path is sent to the server.
C6_RejectedStep ==
    last'.call.op = "pipe_file" =>
        /\ NoObject(last'.call.path) =>
               /\ last'.err = "ValueError"
               /\ ~last'.request.sent
               /\ UNCHANGED <<session, created, store>>
        /\ (IsObjectPath(last'.call.path)
                /\ BigGt(BLen(last'.call.data), MaxPutSize)) =>
               /\ last'.err = "NotImplementedError"
               /\ ~last'.request.sent
               /\ UNCHANGED <<session, created, store>>
        /\ (IsObjectPath(last'.call.path) /\ BLen(last'.call.data) = MaxPutSize) =>
               /\ last'.request.sent
               /\ last'.request.method = "PUT"
               /\ last'.err \notin {"ValueError", "NotImplementedError"}

C6_RejectBeforeNetwork == [][C6_RejectedStep]_vars

\* 5 GiB were written to an object, and one byte more was then rejected
C6_Witness ==
    /\ last.call.op = "pipe_file"
    /\ last.call.data = Data_5GiB1
    /\ last.err = "NotImplementedError"
    /\ ObjectAt(store, last.call.path) = Data_5GiB

\* C9: the PUT of _pipe_file carries Content-Length = len(data) and, with
\* verify_uploads, ETag = md5(data), the checksum of the object the server
\* then holds; a write that succeeds stores data under the object of the path
\* and changes no other object; and an unbounded _cat_file of the path right
\* after it returns data.
C9_Step ==
    /\ (last'.call.op = "pipe_file" /\ last'.request.sent) =>
           /\ last'.request.headers[Str_ContentLength] = BigStr(BLen(last'.call.data))
           /\ verify_uploads =>
                  /\ "ETag" \in DOMAIN last'.request.headers
                  /\ last'.request.headers["ETag"] = md5_hexdigest(last'.call.data)
           /\ \A n \in ObjectSet :
                  n # SWIFTRef(last'.call.path).object => store'[n] = store[n]
           /\ last'.err = "none" =>
                  /\ ObjectAt(store', last'.call.path) = last'.call.data
                  /\ verify_uploads =>
                         last'.request.headers["ETag"]
                             = ObjectHeaders(ObjectAt(store', last'.call.path)).Etag
    /\ (/\ last.call.op = "pipe_file" /\ last.request.sent /\ last.err = "none"
        /\ last'.call.op = "cat_file"
        /\ last'.call.path = last.call.path
        /\ ~last'.call.start.some /\ ~last'.call.end.some) =>
           /\ Str_Range \notin DOMAIN last'.request.headers
           /\ last'.err = "none"
           /\ last'.result = last.call.data

C9_WriteThenReadBack == [][C9_Step]_vars

\* an object that held other bytes was overwritten, and the read right after
\* returned the new bytes
C9_Witness ==
    /\ last.call.op = "cat_file"
    /\ last.call.path = Path_x
    /\ ~last.call.start.some /\ ~last.call.end.some
    /\ last.err = "none"
    /\ last.result = Bytes(Str_bar)
    /\ store[Object_ft] = Data_5GiB

----------------------------------------------------------------------------
(* Ranged reads *)

\* C7: against a server that reads the Range header as the wire protocol
\* defines it, _cat_file(path, start, end) with 0 <= start < end <= size
\* returns the end - start bytes data[start:end] of the object.
C7_RangeReturnsSlice ==
    (/\ transport = "aiohttp"
     /\ last.call.op = "cat_file"
     /\ IsObjectPath(last.call.path)
     /\ ObjectAt(store, last.call.path) # Absent
     /\ last.call.start.some /\ last.call.end.some
     /\ last.call.start.v < last.call.end.v
     /\ ~BigGt(Big(last.call.end.v), BLen(ObjectAt(store, last.call.path)))) =>
        /\ last.err = "none"
        /\ last.result = Slice(ObjectAt(store, last.call.path),
                               last.call.start.v, last.call.end.v)

----------------------------------------------------------------------------
(* exists, isfile, isdir *)

\* C8: for the path of a stored object exists and isfile answer true and
\* isdir false; for an object path whose HEAD does not answer 200 all three
\* answer false, and _info raises FileNotFoundError; for a path without an
\* object exists and isdir answer true and isfile false, and no request is
\* sent. None of the three raises.
C8_ExistsIsfileIsdir ==
    /\ (last.call.op \in {"exists", "isfile", "isdir"}
            /\ SWIFTRef(last.call.path).err = "none") =>
           /\ last.err = "none"
           /\ IF NoObject(last.call.path)
              THEN /\ ~last.request.sent
                   /\ last.result = (last.call.op \in {"exists", "isdir"})
              ELSE /\ last.request.sent
                   /\ last.request.method = "HEAD"
                   /\ (ObjectAt(store, last.call.path) # Absent) =>
                          /\ last.response.status = 200
                          /\ last.result = (last.call.op \in {"exists", "isfile"})
                   /\ last.response.status # 200 => last.result = FALSE
    /\ (last.call.op = "info" /\ last.request.sent
            /\ last.response.status # 200) =>
           last.err = "FileNotFoundError"

\* exists answered false for an object that was deleted
C8_Witness ==
    /\ last.call.op = "exists"
    /\ last.call.path = Path_x
    /\ store[Object_x] = Absent
    /\ last.response.status = 404
    /\ last.result = FALSE

----------------------------------------------------------------------------
(* ukey *)

\* self.kwargs: core.py never assigns it, so reading it either raises
\* AttributeError (Missing) or yields what the base class stored, the storage
\* options of the instance
Missing == [missing |-> TRUE]
KwargsValues == {Missing, EmptyDict}

\* fsspec.utils.tokenize(path, kwargs, tag): a function of its arguments, and
\* different arguments have different tokens
tokenize(path, kwargs, tag) == [path |-> path, kwargs |-> kwargs, tag |-> tag]

\* SWIFTFileSystem.ukey(path): the arguments of tokenize are evaluated from
\* left to right, self.kwargs before self.info(path)["ETag"]
ukey(path, kwargs) ==
    LET call == [op |-> "ukey", path |-> path, kwargs |-> kwargs] IN
    IF kwargs = Missing THEN Raise(call, "AttributeError")
    ELSE \E out \in {_info(path)} :
         AfterInfo(call, out,
                   IF out.err # "none" THEN out.err
                   ELSE IF "ETag" \notin DOMAIN out.result THEN "KeyError"
                   ELSE "none",
                   IF out.err = "none" /\ "ETag" \in DOMAIN out.result
                   THEN tokenize(path, kwargs, out.result["ETag"])
                   ELSE None)

Ukey(paths) == \E path \in paths, kwargs \in KwargsValues :
    Usable /\ ukey(path, kwargs) /\ Frame

----------------------------------------------------------------------------
(* SpecKey: keys of objects that are written and deleted *)

KeyPaths == {Path_x, Path_ft, Path_container}

InitKey == InitFs({"aiohttp", "mock"}, {FALSE}, BOOLEAN)

NextKey ==
    \/ Ukey(KeyPaths)
    \/ Info(KeyPaths)
    \/ PipeFile({Path_x, Path_ft}, {Bytes(Str_bar)})
    \/ RmFile({Path_x, Path_ft})

SpecKey == InitKey /\ [][NextKey]_vars

\* C11: ukey of the path of a stored object raises nothing and returns the
\* token of the path, the configuration and the integrity tag of the object,
\* the tag _info puts into its record.
C11_UkeyReturnsKey ==
    (/\ last.call.op = "ukey"
     /\ IsObjectPath(last.call.path)
     /\ ObjectAt(store, last.call.path) # Absent) =>
        /\ last.err = "none"
        /\ last.request.sent
        /\ last.result = tokenize(last.call.path, last.call.kwargs,
                                  md5_hexdigest(ObjectAt(store, last.call.path)))

====
